---- MODULE Spec2Model ----
(***************************************************************************)
(* acqmidproc (src/main.rs): the SIS image codec, the two processors       *)
(* (Identity, FKSpecies), handle_events and the run loop of main.          *)
(*                                                                         *)
(* Four specifications share the operators that model the code:            *)
(*   SpecCodec   SisImg::new, SisImg::write, SisImg::read on one grid      *)
(*   SpecOD      FKSpecies::calc_od on three grids                         *)
(*   SpecHandle  one iteration of the run loop on one queued delivery      *)
(*   Spec        main: startup, watcher deliveries, the run loop           *)
(***************************************************************************)
EXTENDS Integers, Sequences, FiniteSets, TLC

\* ------------------------------------------------------------------------
\* Bounds of the model
\* ------------------------------------------------------------------------
\* largest height / width of a grid whose samples are enumerated one by one
MaxDim == 2
\* largest number of events in one enumerated notification batch
MaxEvents == 2
\* largest number of paths in one enumerated notification batch
MaxBatchPaths == 5
\* largest number of paths in a batch over the whole path universe
MaxListPaths == 3
\* largest number of deliveries the watcher sends in one run of main
MaxDeliveries == 2
\* largest number of pixels of a grid handed to calc_od
MaxCells == 4

\* ------------------------------------------------------------------------
\* Machine integers
\* ------------------------------------------------------------------------
\* u16::MAX
U16Max == 65535
\* i32::MAX, the largest integer the arithmetic below may produce
I32Max == 2147483647

\* x as u16 (a truncating cast)
AsU16(x) == x % (U16Max + 1)

\* h * w >= 2^31, i.e. 2 * h * w does not fit in a u32
\* (for 0 <= h, w <= 65536; computed without leaving 32 bits)
MulOverflowsU32(h, w) == h > 0 /\ w > I32Max \div h

\* (2 * h * w mod 2^32) / 2 = h * w mod 2^31, for 0 <= h, w <= 65535
\* (the wrapping u32 multiplication of a release build)
HalfWrapped(h, w) ==
    IF ~MulOverflowsU32(h, w) THEN h * w
    ELSE LET q == I32Max \div h
         IN ((h * q - I32Max) - 1) + h * (w - q)

\* m[1] * m[2] = n[1] * n[2], for factors in 0..65535
ProdEq(m, n) ==
    /\ MulOverflowsU32(m[1], m[2]) = MulOverflowsU32(n[1], n[2])
    /\ HalfWrapped(m[1], m[2]) = HalfWrapped(n[1], n[2])

\* m[1] * m[2] >= n[1] * n[2], for factors in 0..65535
ProdGe(m, n) ==
    IF MulOverflowsU32(m[1], m[2]) # MulOverflowsU32(n[1], n[2])
    THEN MulOverflowsU32(m[1], m[2])
    ELSE HalfWrapped(m[1], m[2]) >= HalfWrapped(n[1], n[2])

\* u16::to_le_bytes / LittleEndian::write_u16_into on one sample
LeBytes(v) == <<v % 256, v \div 256>>

\* u16::from_le_bytes / read_u16_into on one sample
FromLe(b) == b[1] + 256 * b[2]

\* ------------------------------------------------------------------------
\* Vectors.  A vector of n[1] * n[2] elements is kept as its length (as the
\* two factors, their product may exceed 32 bits) and a period pat: element
\* i (from 0) is pat[(i % Len(pat)) + 1].  A grid up to MaxDim x MaxDim has
\* Len(pat) = n[1] * n[2], every element listed; a larger one is filled
\* with one value.
\* ------------------------------------------------------------------------
Vec(h, w, pat) == [n |-> <<h, w>>, pat |-> pat]

EmptyVec == Vec(0, 0, <<>>)

\* v.len() = k, for k < 2^31
VecLenEq(v, k) ==
    /\ ~MulOverflowsU32(v.n[1], v.n[2])
    /\ v.n[1] * v.n[2] = k

\* element i (from 0) of v
VecAt(v, i) == v.pat[(i % Len(v.pat)) + 1]

\* v.iter().map(f)
VecMap(v, F(_)) == [n |-> v.n, pat |-> [i \in DOMAIN v.pat |-> F(v.pat[i])]]

\* Array2<T> in standard (row-major) layout
Array(h, w, pat) == [shape |-> <<h, w>>, data |-> Vec(h, w, pat)]

\* ------------------------------------------------------------------------
\* Files.  The bytes of a file are
\*    lead reserved bytes, dims, pad reserved bytes, body
\* where body is a vector of two-byte slots <<lo, hi>>.  A file shorter than
\* the 200-byte header has lead < 10, or Len(dims) < 4, or pad < 186.
\* ------------------------------------------------------------------------
\* bytes before the height field
LeadLen == 10
\* bytes between the width field and the samples
PadLen == 186

File(lead, dims, pad, body) ==
    [lead |-> lead, dims |-> dims, pad |-> pad, body |-> body]

\* File::create: an empty file
EmptyFile == File(0, <<>>, 0, EmptyVec)

\* ------------------------------------------------------------------------
\* SisImg
\* ------------------------------------------------------------------------
NoImg == [height |-> 0, width |-> 0, image |-> EmptyVec]

\* SisImg::new
SisImgNew(arr) ==
    LET height == arr.shape[1]
        width == arr.shape[2]
    IN IF height > U16Max THEN [ok |-> FALSE, img |-> NoImg]
       ELSE IF width > U16Max THEN [ok |-> FALSE, img |-> NoImg]
       ELSE [ok |-> TRUE,
             img |-> [height |-> height, width |-> width, image |-> arr.data]]

\* the ten header writes, the two dimension writes and the 186 pad writes
SisHeader(self) ==
    File(LeadLen,
         LeBytes(AsU16(self.height)) \o LeBytes(AsU16(self.width)),
         PadLen, EmptyVec)

\* nbytes / 2 of SisImg::write, or -1 when the multiplication panics
\* (overflow checks of a debug build)
SisHalfNBytes(self, bld) ==
    IF MulOverflowsU32(self.height, self.width)
    THEN IF bld = "debug" THEN -1 ELSE HalfWrapped(self.height, self.width)
    ELSE self.height * self.width

\* SisImg::write: res is "ok" or "panic" (the arithmetic overflow of a debug
\* build, or the length assertion of write_u16_into); file is what is on disk
\* when the call ends.  The File is unbuffered, the header is on disk before
\* nbytes is computed.
SisWrite(self, bld) ==
    LET hdr == SisHeader(self)
        half == SisHalfNBytes(self, bld)
    IN IF half < 0 \/ ~VecLenEq(self.image, half)
       THEN [res |-> "panic", file |-> hdr]
       ELSE [res |-> "ok",
             file |-> [hdr EXCEPT !.body = VecMap(self.image, LeBytes)]]

\* the first height * width slots of body, decoded (read_u16_into)
DecodeBody(body, height, width) ==
    IF height = 0 \/ width = 0 THEN Vec(height, width, <<>>)
    ELSE IF ProdEq(body.n, <<height, width>>)
    THEN Vec(height, width, [i \in DOMAIN body.pat |-> FromLe(body.pat[i])])
    ELSE Vec(height, width,
             [i \in 1..(height * width) |-> FromLe(VecAt(body, i - 1))])

\* SisImg::read on the bytes of an opened file: read_exact and read_u16_into
\* fail on a file that ends before the bytes they ask for
SisRead(f) ==
    IF f.lead < LeadLen \/ Len(f.dims) < 2 THEN [ok |-> FALSE, img |-> NoImg]
    ELSE IF Len(f.dims) < 4 THEN [ok |-> FALSE, img |-> NoImg]
    ELSE LET height == FromLe(SubSeq(f.dims, 1, 2))
             width == FromLe(SubSeq(f.dims, 3, 4))
             \* what is left in the file after the seek over the pad
             avail == IF f.pad < PadLen THEN EmptyVec ELSE f.body
         IN IF ~ProdGe(avail.n, <<height, width>>)
            THEN [ok |-> FALSE, img |-> NoImg]
            ELSE [ok |-> TRUE,
                  img |-> [height |-> height, width |-> width,
                           image |-> DecodeBody(avail, height, width)]]

\* impl From<SisImg> for Array2<u16>
ToArray(img) == [shape |-> <<img.height, img.width>>, data |-> img.image]

\* ------------------------------------------------------------------------
\* f32 values: a number in millionths, or -inf, +inf, NaN
\* ------------------------------------------------------------------------
Num(v) == [k |-> "num", v |-> v]
NegInf == [k |-> "-inf", v |-> 0]
PosInf == [k |-> "+inf", v |-> 0]
NaN == [k |-> "nan", v |-> 0]

\* ln of the sample differences the model produces, in millionths
LnMicro ==
    (1000 :> 6907755) @@ (2000 :> 7600903) @@ (64536 :> 11074979)

\* f32::ln on f32::from(x), x a u16
F32Ln(x) == IF x = 0 THEN NegInf ELSE Num(LnMicro[x])

\* a - b on f32
F32Sub(a, b) ==
    IF a.k = "nan" \/ b.k = "nan" THEN NaN
    ELSE IF a.k = "num" /\ b.k = "num" THEN Num(a.v - b.v)
    ELSE IF a.k = b.k THEN NaN
    ELSE IF a.k = "num" THEN (IF b.k = "-inf" THEN PosInf ELSE NegInf)
    ELSE a

\* ((x + 1.0) * 1000.0) as u16: the cast truncates and saturates, NaN is 0
RescaleCast(x) ==
    IF x.k = "nan" \/ x.k = "-inf" THEN 0
    ELSE IF x.k = "+inf" THEN U16Max
    ELSE IF x.v + 1000000 < 0 THEN 0
    ELSE IF (x.v + 1000000) \div 1000 > U16Max THEN U16Max
    ELSE (x.v + 1000000) \div 1000

\* ------------------------------------------------------------------------
\* ndarray on grids with every element listed
\* ------------------------------------------------------------------------
NoArr == Array(0, 0, <<>>)

\* a[[r, c]], from 0
At(a, r, c) == VecAt(a.data, r * a.shape[2] + c)

\* a[[r, c]] of a broadcast to a shape with more rows or columns
BAt(a, r, c) ==
    At(a, IF a.shape[1] = 1 THEN 0 ELSE r, IF a.shape[2] = 1 THEN 0 ELSE c)

\* an h x w grid from a function of row and column
Build(h, w, F(_, _)) ==
    Array(h, w, [i \in 1..(h * w) |-> F((i - 1) \div w, (i - 1) % w)])

\* a.mapv(f)
ArrMap(a, F(_)) == [shape |-> a.shape, data |-> VecMap(a.data, F)]

\* co_broadcast of two shapes (the shape of &a - &b), ok FALSE if incompatible
CoBroadcast(s1, s2) ==
    LET One(d1, d2) == IF d1 = d2 THEN d1 ELSE IF d1 = 1 THEN d2 ELSE d1
        Fits(d1, d2) == d1 = d2 \/ d1 = 1 \/ d2 = 1
    IN [ok |-> Fits(s1[1], s2[1]) /\ Fits(s1[2], s2[2]),
        shape |-> <<One(s1[1], s2[1]), One(s1[2], s2[2])>>]

\* broadcast of shape from to shape to (the right side of assign)
BroadcastsTo(from, to) ==
    /\ from[1] = to[1] \/ from[1] = 1
    /\ from[2] = to[2] \/ from[2] = 1

\* &a - &b element by element, after broadcasting; ok FALSE is the panic of
\* broadcast_with(..).unwrap()
ArrSub(a, b, Minus(_, _)) ==
    LET cb == CoBroadcast(a.shape, b.shape)
        El(r, c) == Minus(BAt(a, r, c), BAt(b, r, c))
    IN IF ~cb.ok THEN [ok |-> FALSE, arr |-> NoArr]
       ELSE [ok |-> TRUE, arr |-> Build(cb.shape[1], cb.shape[2], El)]

\* a.slice(s![lo..hi, ..])
SliceRows(a, lo, hi) ==
    LET El(r, c) == At(a, lo + r, c)
    IN Build(hi - lo, a.shape[2], El)

\* out.slice_mut(s![lo..hi, ..]).assign(&rhs); ok FALSE is the panic of
\* broadcast_unwrap
AssignRows(out, lo, hi, rhs) ==
    LET El(r, c) == IF r >= lo /\ r < hi THEN BAt(rhs, r - lo, c)
                    ELSE At(out, r, c)
    IN IF ~BroadcastsTo(rhs.shape, <<hi - lo, out.shape[2]>>)
       THEN [ok |-> FALSE, arr |-> out]
       ELSE [ok |-> TRUE, arr |-> Build(out.shape[1], out.shape[2], El)]

\* ------------------------------------------------------------------------
\* FKSpecies::calc_od
\* ------------------------------------------------------------------------
\* x - y on u16: wraps in a release build
U16Sub(x, y) == IF x < y THEN x - y + U16Max + 1 ELSE x - y

\* img - off on Array2<u16>: ok FALSE is a panic, of the broadcast or, in a
\* debug build, of "attempt to subtract with overflow"
SubOffset(image, off, bld) ==
    LET d == ArrSub(image, off, U16Sub)
        cb == CoBroadcast(image.shape, off.shape)
        under == \E r \in 0..(cb.shape[1] - 1), c \in 0..(cb.shape[2] - 1) :
                    BAt(image, r, c) < BAt(off, r, c)
    IN IF d.ok /\ bld = "debug" /\ under THEN [ok |-> FALSE, arr |-> NoArr]
       ELSE d

\* the rows of the log frame that an output half is computed from:
\* lower rows minus upper rows
HalfDiff(logs, height) ==
    ArrSub(SliceRows(logs, height \div 2, height),
           SliceRows(logs, 0, height \div 2), F32Sub)

CalcOdPanic == [res |-> "panic", s1 |-> NoArr, s2 |-> NoArr, out |-> NoArr]

\* output = Array2::zeros(img1.raw_dim())
Zeros(shape) ==
    LET zero(r, c) == Num(0)
    IN Build(shape[1], shape[2], zero)

\* the return of calc_od, o2 the second assign
CalcOdReturn(s1, s2, o2) ==
    IF ~o2.ok THEN CalcOdPanic
    ELSE [res |-> "ok", s1 |-> s1, s2 |-> s2, out |-> o2.arr]

\* lines 274 to 279: the second half of output, o1 the first assign and h2
\* the difference of the halves of ln(img2s)
CalcOdSecond(s1, s2, height, o1, h2) ==
    IF ~o1.ok \/ ~h2.ok THEN CalcOdPanic
    ELSE CalcOdReturn(s1, s2,
                      AssignRows(o1.arr, height \div 2, o1.arr.shape[1], h2.arr))

\* lines 267 to 272: the first half of output, h1 the difference of the
\* halves of ln(img1s)
CalcOdFirst(output, s1, s2, height, h1) ==
    IF ~h1.ok THEN CalcOdPanic
    ELSE CalcOdSecond(s1, s2, height,
                      AssignRows(output, 0, height \div 2, h1.arr),
                      HalfDiff(ArrMap(s2, F32Ln), height))

\* calc_od from line 262 on, d1 and d2 the two subtractions of the offset
CalcOdHalves(shape, d1, d2) ==
    IF ~d1.ok \/ ~d2.ok THEN CalcOdPanic
    ELSE CalcOdFirst(Zeros(shape), d1.arr, d2.arr, d1.arr.shape[1],
                     HalfDiff(ArrMap(d1.arr, F32Ln), d1.arr.shape[1]))

\* calc_od: res "ok" with out the returned grid, or "panic"; s1 and s2 are
\* img1s and img2s before the logarithm
CalcOd(image1, image2, image3, bld) ==
    CalcOdHalves(image1.shape, SubOffset(image1, image3, bld),
                 SubOffset(image2, image3, bld))

\* ------------------------------------------------------------------------
\* Paths and the file system.  A path is the sequence of its components
\* (absolute, without the separators); the file system maps the path of
\* every regular file to its bytes.
\* ------------------------------------------------------------------------
NoName == [some |-> FALSE, name |-> ""]

\* Path::file_name: None for the root and for a path that ends in ".."
FileName(path) ==
    IF path = <<>> THEN NoName
    ELSE IF path[Len(path)] = ".." THEN NoName
    ELSE [some |-> TRUE, name |-> path[Len(path)]]

\* Path::parent, for a path with a file name
Parent(path) == SubSeq(path, 1, Len(path) - 1)

\* PathBuf::push of a file name
Push(path, name) == Append(path, name)

\* Path::with_file_name: the file name replaces the last component of path;
\* it is pushed when path has no file name
WithFileName(path, name) ==
    IF FileName(path).some THEN Push(Parent(path), name) ELSE Push(path, name)

\* the tokens FKSpecies looks for, in the order of its three searches
Tokens == <<"rawimg-0001", "rawimg-0002", "rawimg-0003">>

\* the tokens a component contains as a substring
TokensIn(comp) ==
    CASE comp \in {"s-rawimg-0001.sis"} -> {"rawimg-0001"}
      [] comp \in {"s-rawimg-0002.sis"} -> {"rawimg-0002"}
      [] comp \in {"s-rawimg-0003.sis", "t-rawimg-0003.sis"} -> {"rawimg-0003"}
      [] OTHER -> {}

\* path.to_string_lossy().contains(pattern): no token holds a separator, so
\* a match lies inside one component
Contains(path, pattern) == \E i \in DOMAIN path : pattern \in TokensIn(path[i])

\* the directories that exist
Dirs ==
    {<<>>, <<"data">>, <<"data", "in">>, <<"data", "in", "a">>,
     <<"data", "in", "b">>, <<"data", "out">>}

\* Path::is_dir
IsDir(path) == path \in Dirs

\* the bytes of a SIS file holding the samples pat of an h x w grid
SisFile(h, w, pat) ==
    File(LeadLen, LeBytes(h) \o LeBytes(w), PadLen,
         Vec(h, w, [i \in DOMAIN pat |-> LeBytes(pat[i])]))

Raw1 == <<"data", "in", "s-rawimg-0001.sis">>
Raw2 == <<"data", "in", "s-rawimg-0002.sis">>
Raw3 == <<"data", "in", "s-rawimg-0003.sis">>
\* a second reference frame, brighter than the atoms frames
Raw3Bright == <<"data", "in", "t-rawimg-0003.sis">>
\* two files of one name in two watched subdirectories
FileA == <<"data", "in", "a", "f1.sis">>
FileB == <<"data", "in", "b", "f1.sis">>
File2 == <<"data", "in", "f2.sis">>
\* a path of an event whose file is gone when the batch is processed
Gone == <<"data", "in", "gone.sis">>
\* a path without a file name
DotDot == <<"data", "in", "a", "..">>

\* the files in the watched directory when the run loop starts
Fs0 ==
    (Raw1 :> SisFile(2, 1, <<2000, 2000>>)) @@
    (Raw2 :> SisFile(2, 1, <<3000, 2000>>)) @@
    (Raw3 :> SisFile(2, 1, <<1000, 1000>>)) @@
    (Raw3Bright :> SisFile(2, 1, <<3000, 3000>>)) @@
    (FileA :> SisFile(1, 1, <<258>>)) @@
    (FileB :> SisFile(1, 1, <<U16Max>>)) @@
    (File2 :> SisFile(1, 2, <<0, 258>>))

\* a file can be created or replaced at path
CanCreate(path) == FileName(path).some /\ IsDir(Parent(path)) /\ ~IsDir(path)

\* fs::copy(from, to): ok FALSE when from is no regular file or to cannot be
\* created; the bytes of from replace those of to
FsCopy(fsx, from, to) ==
    IF from \notin DOMAIN fsx \/ ~CanCreate(to) THEN [ok |-> FALSE, fs |-> fsx]
    ELSE [ok |-> TRUE, fs |-> (to :> fsx[from]) @@ fsx]

\* SisImg::read(&path): File::open fails on a path that is no file
SisReadPath(fsx, path) ==
    IF path \notin DOMAIN fsx THEN [ok |-> FALSE, img |-> NoImg]
    ELSE SisRead(fsx[path])

\* a write to the file system, as logged by a processor call
Op(kind, from, to) == [kind |-> kind, from |-> from, to |-> to]

\* ------------------------------------------------------------------------
\* Identity
\* ------------------------------------------------------------------------
\* Identity::filecp
IdentityFilecp(fsx, outpath, path) ==
    LET fname == FileName(path)
        outname == Push(outpath, fname.name)
        cp == FsCopy(fsx, path, outname)
    IN IF ~fname.some THEN [ok |-> FALSE, fs |-> fsx, op |-> Op("none", path, path)]
       ELSE [ok |-> cp.ok, fs |-> cp.fs, op |-> Op("copy", path, outname)]

\* the loop of Identity::proc that goes on after a failed copy
RECURSIVE IdentityLoopKeepGoing(_, _, _, _)
IdentityLoopKeepGoing(fsx, outpath, paths, ops) ==
    IF paths = <<>> THEN [res |-> "ok", fs |-> fsx, ops |-> ops]
    ELSE LET r == IdentityFilecp(fsx, outpath, Head(paths))
         IN IdentityLoopKeepGoing(r.fs, outpath, Tail(paths),
                                  IF r.ok THEN Append(ops, r.op) ELSE ops)

\* Identity::proc without the ? on filecp
IdentityProcKeepGoing(fsx, outpath, paths) ==
    IdentityLoopKeepGoing(fsx, outpath, paths, <<>>)

\* for p in paths { self.filecp(p)?; }
RECURSIVE IdentityLoop(_, _, _, _)
IdentityLoop(fsx, outpath, paths, ops) ==
    IF paths = <<>> THEN [res |-> "ok", fs |-> fsx, ops |-> ops]
    ELSE LET r == IdentityFilecp(fsx, outpath, Head(paths))
         IN IF ~r.ok THEN [res |-> "err", fs |-> fsx, ops |-> ops]
            ELSE IdentityLoop(r.fs, outpath, Tail(paths), Append(ops, r.op))

\* Identity::proc: res "ok" or "err", the file system it leaves, its writes
IdentityProc(fsx, outpath, paths) == IdentityLoop(fsx, outpath, paths, <<>>)

\* ------------------------------------------------------------------------
\* FKSpecies
\* ------------------------------------------------------------------------
\* the paths that contain pattern, in the order of paths
Matching(paths, pattern) ==
    SelectSeq(paths, LAMBDA x : Contains(x, pattern))

\* findpattern that falls back on the first path of the batch
FindPatternLax(paths, pattern) ==
    LET imgp == Matching(paths, pattern)
    IN IF Len(imgp) = 0
       THEN (IF paths = <<>> THEN [ok |-> FALSE, path |-> <<>>]
             ELSE [ok |-> TRUE, path |-> paths[1]])
       ELSE [ok |-> TRUE, path |-> imgp[1]]

\* FKSpecies::findpattern
FindPattern(paths, pattern) ==
    LET imgp == Matching(paths, pattern)
    IN IF Len(imgp) = 0 THEN [ok |-> FALSE, path |-> <<>>]
       ELSE [ok |-> TRUE, path |-> imgp[1]]

\* the name of the file the result is written to
OdFileName == "20140000-img-0000.sis"

ProcResult(res, fsx, ops) == [res |-> res, fs |-> fsx, ops |-> ops]

\* fs::copy of each of src to the matching dst, in order, up to the first
\* that fails
RECURSIVE CopyAll(_, _, _, _)
CopyAll(fsx, src, dst, ops) ==
    IF src = <<>> THEN ProcResult("ok", fsx, ops)
    ELSE IF ~FsCopy(fsx, Head(src), Head(dst)).ok THEN ProcResult("err", fsx, ops)
    ELSE CopyAll(FsCopy(fsx, Head(src), Head(dst)).fs, Tail(src), Tail(dst),
                 Append(ops, Op("copy", Head(src), Head(dst))))

\* SisImg::new(imgod)?.write(imgodop)?, cp the outcome of the three copies
FKSpeciesWrite(cp, imgodop, new, bld) ==
    IF cp.res = "err" THEN cp
    ELSE IF ~new.ok \/ ~CanCreate(imgodop) THEN ProcResult("err", cp.fs, cp.ops)
    ELSE ProcResult(SisWrite(new.img, bld).res,
                    (imgodop :> SisWrite(new.img, bld).file) @@ cp.fs,
                    Append(cp.ops, Op("write", imgodop, imgodop)))

\* FKSpecies::proc from line 315 on: calc the outcome of calc_od, src the
\* three paths found
FKSpeciesStore(fsx, outpath, src, calc, bld) ==
    IF calc.res = "panic" THEN ProcResult("panic", fsx, <<>>)
    ELSE FKSpeciesWrite(
            CopyAll(fsx, src,
                    [i \in 1..3 |-> WithFileName(outpath, FileName(src[i]).name)],
                    <<>>),
            WithFileName(outpath, OdFileName),
            SisImgNew(ArrMap(calc.out, RescaleCast)), bld)

\* FKSpecies::proc from line 311 on: rds the three SisImg::read
FKSpeciesRead(fsx, outpath, src, rds, bld) ==
    IF \E i \in 1..3 : ~rds[i].ok THEN ProcResult("err", fsx, <<>>)
    ELSE FKSpeciesStore(fsx, outpath, src,
                        CalcOd(ToArray(rds[1].img), ToArray(rds[2].img),
                               ToArray(rds[3].img), bld), bld)

\* FKSpecies::proc after the three findpattern, f their results
FKSpeciesFound(fsx, outpath, f, bld) ==
    IF \E i \in 1..3 : ~f[i].ok \/ ~FileName(f[i].path).some
    THEN ProcResult("err", fsx, <<>>)
    ELSE FKSpeciesRead(fsx, outpath, [i \in 1..3 |-> f[i].path],
                       [i \in 1..3 |-> SisReadPath(fsx, f[i].path)], bld)

\* FKSpecies::proc: res "ok", "err" or "panic", the file system it leaves,
\* its writes
FKSpeciesProc(fsx, outpath, paths, bld) ==
    FKSpeciesFound(fsx, outpath,
                   [i \in 1..3 |-> FindPattern(paths, Tokens[i])], bld)

\* ------------------------------------------------------------------------
\* handle_events
\* ------------------------------------------------------------------------
\* the two loops over events and ev.paths
RECURSIVE Flatten(_)
Flatten(events) ==
    IF events = <<>> THEN <<>> ELSE Head(events) \o Flatten(Tail(events))

\* a dedup that drops every repeat of a path, adjacent or not
RECURSIVE DedupAllFrom(_, _)
DedupAllFrom(kept, rest) ==
    IF rest = <<>> THEN kept
    ELSE IF \E i \in DOMAIN kept : kept[i] = Head(rest)
    THEN DedupAllFrom(kept, Tail(rest))
    ELSE DedupAllFrom(Append(kept, Head(rest)), Tail(rest))

DedupAll(v) == DedupAllFrom(<<>>, v)

\* Vec::dedup: an element equal to the last element kept is dropped
RECURSIVE DedupFrom(_, _)
DedupFrom(kept, rest) ==
    IF rest = <<>> THEN kept
    ELSE IF kept # <<>> /\ kept[Len(kept)] = Head(rest)
    THEN DedupFrom(kept, Tail(rest))
    ELSE DedupFrom(Append(kept, Head(rest)), Tail(rest))

\* paths.dedup()
Dedup(v) == DedupFrom(<<>>, v)

\* Process::proc of the processor chosen
Proc(processor, fsx, outpath, paths, bld) ==
    IF processor = "identity" THEN IdentityProc(fsx, outpath, paths)
    ELSE FKSpeciesProc(fsx, outpath, paths, bld)

\* proc.proc(paths): the paths handed to the processor and what proc did
HandOver(processor, fsx, outpath, paths, bld) ==
    [paths |-> paths, out |-> Proc(processor, fsx, outpath, paths, bld)]

\* handle_events
HandleEvents(processor, fsx, outpath, events, bld) ==
    HandOver(processor, fsx, outpath, Dedup(Flatten(events)), bld)

\* ------------------------------------------------------------------------
\* checkpaths, getproc
\* ------------------------------------------------------------------------
\* checkpaths without the comparison of the two paths
CheckPathsDirsOnly(c) == IsDir(c.inpath) /\ IsDir(c.outpath)

\* checkpaths: TRUE for Ok(())
CheckPaths(c) ==
    IF c.inpath = c.outpath THEN FALSE
    ELSE IF ~IsDir(c.inpath) THEN FALSE
    ELSE IF ~IsDir(c.outpath) THEN FALSE
    ELSE TRUE

\* getproc: the processor, "none" for the error
GetProc(c) ==
    IF c.proc = "identity" THEN "identity"
    ELSE IF c.proc = "fkspecies" THEN "fkspecies"
    ELSE "none"

\* the run loop after a handle_events that swallows the error
AfterHandleSwallow(res) == IF res = "panic" THEN "panicked" ELSE "recv"

\* where main goes after handle_events(..)?: on to the next delivery, out
\* with the error, or down with the panic
AfterHandle(res) ==
    IF res = "ok" THEN "recv"
    ELSE IF res = "err" THEN "exit_err"
    ELSE "panicked"

\* ------------------------------------------------------------------------
\* State
\* ------------------------------------------------------------------------
VARIABLES
    build,      \* "debug" (overflow checks on) or "release" (wrapping)
    \* the codec on one grid
    arr,        \* the Array2<u16> handed to SisImg::new
    img,        \* the SisImg built from it
    file,       \* the bytes on disk at the path written
    rd,         \* the result of SisImg::read
    cpc,        \* "new", "write", "read", "done", "failed", "panicked"
    \* calc_od on three grids
    img1,       \* the first atoms frame
    img2,       \* the second atoms frame
    img3,       \* the reference frame
    od,         \* the outcome of calc_od
    opc,        \* "call" or "done"
    \* main
    conf,       \* the Config: inpath, outpath, proc
    pc,         \* where main is: "checkpaths", "getproc", "watch", "recv"
                \* (the run loop), "exit_err", "panicked"
    processor,  \* the processor getproc returned, "none" before
    watching,   \* the debouncer watches inpath
    chan,       \* the deliveries sent and not yet received
    sentLog,    \* every delivery the watcher has sent, in order
    fs,         \* the file system
    log         \* one entry for each delivery the run loop has received

codecVars == <<arr, img, file, rd, cpc>>

odVars == <<img1, img2, img3, od, opc>>

mainVars == <<conf, pc, processor, watching, chan, sentLog, fs, log>>

vars == <<build, codecVars, odVars, mainVars>>

\* the variables of Spec and SpecHandle, when another specification runs
MainIdle ==
    /\ conf = [inpath |-> <<>>, outpath |-> <<>>, proc |-> ""]
    /\ pc = "idle"
    /\ processor = "none"
    /\ watching = FALSE
    /\ chan = <<>>
    /\ sentLog = <<>>
    /\ fs = Fs0
    /\ log = <<>>

\* the variables of SpecCodec, when another specification runs
CodecIdle ==
    /\ arr = NoArr
    /\ img = NoImg
    /\ file = EmptyFile
    /\ rd = [ok |-> FALSE, img |-> NoImg]
    /\ cpc = "idle"

\* the variables of SpecOD, when another specification runs
OdIdle ==
    /\ img1 = NoArr
    /\ img2 = NoArr
    /\ img3 = NoArr
    /\ od = CalcOdPanic
    /\ opc = "idle"

Builds == {"debug", "release"}

\* ------------------------------------------------------------------------
\* SpecCodec: SisImg::new(arr).write(path), then SisImg::read(path)
\* (the sequence of tests::test_write_read_sis)
\* ------------------------------------------------------------------------
\* sample values: both bytes equal, bytes different, all bits set
Samples == {0, 258, U16Max}

\* heights and widths beyond MaxDim: 2^15, the largest a SisImg takes, one more
BigDims == {32768, U16Max, U16Max + 1}

\* grids with every sample chosen freely
SmallArrays(maxDim) ==
    UNION {{Array(h, w, p) : p \in [1..(h * w) -> Samples]} :
             h \in 1..maxDim, w \in 1..maxDim}

\* Array2::from_elem((h, w), v), for a large h or w
BigArrays(maxDim) ==
    {Array(d[1], d[2], <<v>>) :
       d \in {e \in ((1..maxDim) \cup BigDims) \X ((1..maxDim) \cup BigDims) :
                e[1] \in BigDims \/ e[2] \in BigDims},
       v \in Samples}

InitCodec ==
    /\ build \in Builds
    /\ arr \in SmallArrays(MaxDim) \cup BigArrays(MaxDim)
    /\ img = NoImg
    /\ file = EmptyFile
    /\ rd = [ok |-> FALSE, img |-> NoImg]
    /\ cpc = "new"
    /\ OdIdle
    /\ MainIdle

\* SisImg::new(imgbuf)
CodecNew ==
    /\ cpc = "new"
    /\ LET r == SisImgNew(arr)
       IN /\ img' = r.img
          /\ cpc' = IF r.ok THEN "write" ELSE "failed"
    /\ UNCHANGED <<build, arr, file, rd, odVars, mainVars>>

\* .write(path)
CodecWrite ==
    /\ cpc = "write"
    /\ LET r == SisWrite(img, build)
       IN /\ file' = r.file
          /\ cpc' = IF r.res = "ok" THEN "read" ELSE "panicked"
    /\ UNCHANGED <<build, arr, img, rd, odVars, mainVars>>

\* SisImg::read(&path)
CodecRead ==
    /\ cpc = "read"
    /\ rd' = SisRead(file)
    /\ cpc' = "done"
    /\ UNCHANGED <<build, arr, img, file, odVars, mainVars>>

NextCodec == CodecNew \/ CodecWrite \/ CodecRead

SpecCodec == InitCodec /\ [][NextCodec]_vars

\* the grid is one the round trip is claimed for
ValidGrid ==
    /\ arr.shape[1] \in 1..U16Max
    /\ arr.shape[2] \in 1..U16Max

\* C1: for every grid with height and width in [1, 65535], SisImg::new, write
\* and read all succeed, and the image read has the height, the width and the
\* samples of the grid.
C1_RoundTrip ==
    (ValidGrid /\ cpc \in {"done", "failed", "panicked"}) =>
        /\ cpc = "done"
        /\ rd.ok
        /\ rd.img.height = arr.shape[1]
        /\ rd.img.width = arr.shape[2]
        /\ rd.img.image = arr.data

\* the round trip holds whenever 2 * height * width fits in a u32
RoundTripBelowOverflow ==
    (ValidGrid /\ ~MulOverflowsU32(arr.shape[1], arr.shape[2])
       /\ cpc \in {"done", "failed", "panicked"}) =>
        /\ cpc = "done"
        /\ rd.ok
        /\ ToArray(rd.img) = arr

\* ------------------------------------------------------------------------
\* main
\* ------------------------------------------------------------------------
\* a delivery of the debouncer: Ok(events) or Err(errors)
OkDelivery(events) == [ok |-> TRUE, events |-> events]
ErrDelivery == [ok |-> FALSE, events |-> <<>>]

\* checkpaths(&conf)?
DoCheckPaths ==
    /\ pc = "checkpaths"
    /\ pc' = IF CheckPaths(conf) THEN "getproc" ELSE "exit_err"
    /\ UNCHANGED <<build, codecVars, odVars, conf, processor, watching, chan,
                   sentLog, fs, log>>

\* let processor = getproc(&conf)?
DoGetProc ==
    /\ pc = "getproc"
    /\ processor' = GetProc(conf)
    /\ pc' = IF GetProc(conf) = "none" THEN "exit_err" ELSE "watch"
    /\ UNCHANGED <<build, codecVars, odVars, conf, watching, chan, sentLog,
                   fs, log>>

\* new_debouncer(..)?, watcher.watch(inpath, Recursive)?
DoWatch ==
    /\ pc = "watch"
    /\ watching' = TRUE
    /\ pc' = "recv"
    /\ UNCHANGED <<build, codecVars, odVars, conf, processor, chan, sentLog,
                   fs, log>>

\* the debouncer thread sends d while main is in the run loop
Send(d) ==
    /\ watching
    /\ pc = "recv"
    /\ Len(sentLog) < MaxDeliveries
    /\ chan' = Append(chan, d)
    /\ sentLog' = Append(sentLog, d)
    /\ UNCHANGED <<build, codecVars, odVars, conf, pc, processor, watching,
                   fs, log>>

\* Ok(events) => handle_events(&processor, events)?, h what it did
RecvOk(res, h) ==
    /\ fs' = h.out.fs
    /\ log' = Append(log, [delivery |-> res, paths |-> h.paths,
                           res |-> h.out.res, ops |-> h.out.ops])
    /\ pc' = AfterHandle(h.out.res)

\* Err(e) => bail!(..)
RecvErr(res) ==
    /\ fs' = fs
    /\ log' = Append(log, [delivery |-> res, paths |-> <<>>,
                           res |-> "watch_err", ops |-> <<>>])
    /\ pc' = "exit_err"

\* one iteration of for res in rx: the next delivery is taken, an Err ends
\* main, the events of an Ok go through handle_events
Recv ==
    /\ pc = "recv"
    /\ chan # <<>>
    /\ IF Head(chan).ok
       THEN RecvOk(Head(chan),
                   HandleEvents(processor, fs, conf.outpath, Head(chan).events,
                                build))
       ELSE RecvErr(Head(chan))
    /\ chan' = Tail(chan)
    /\ UNCHANGED <<build, codecVars, odVars, conf, processor, watching,
                   sentLog>>

\* ------------------------------------------------------------------------
\* Spec: main from checkpaths on
\* ------------------------------------------------------------------------
\* the directory arguments tried: the two directories, and a path that is
\* no directory
ConfPaths == {<<"data", "in">>, <<"data", "out">>, <<"data", "nodir">>}

ProcNames == {"identity", "fkspecies", "dummy"}

\* the batches the watcher sends in Spec
WatchBatches ==
    {<<>>, <<<<>>>>, <<<<Raw1, Raw2>>, <<Raw3>>>>, <<<<Raw1, Raw2>>>>,
     <<<<FileA>>, <<FileA, File2>>>>, <<<<Gone>>>>}

Init ==
    /\ build \in Builds
    /\ conf \in [inpath : ConfPaths, outpath : ConfPaths, proc : ProcNames]
    /\ pc = "checkpaths"
    /\ processor = "none"
    /\ watching = FALSE
    /\ chan = <<>>
    /\ sentLog = <<>>
    /\ fs = Fs0
    /\ log = <<>>
    /\ CodecIdle
    /\ OdIdle

\* the debouncer sends a batch of events
Notify == \E b \in WatchBatches : Send(OkDelivery(b))

\* the debouncer sends its errors
NotifyErr == Send(ErrDelivery)

Next == DoCheckPaths \/ DoGetProc \/ DoWatch \/ Notify \/ NotifyErr \/ Recv

Spec == Init /\ [][Next]_vars

\* ------------------------------------------------------------------------
\* SpecHandle: the run loop with one delivery in the channel
\* ------------------------------------------------------------------------
\* the sequences over S of length at most n
SeqsUpTo(S, n) == UNION {[1..k -> S] : k \in 0..n}

\* the batches of at most MaxEvents events and MaxBatchPaths paths over
\* three files
FewPaths == {FileA, FileB, File2}

\* the batches of at most k events that hold at most n paths in all
RECURSIVE BatchesUpTo(_, _)
BatchesUpTo(k, n) ==
    IF k = 0 THEN {<<>>}
    ELSE {<<>>} \cup
         UNION {{<<e>> \o b : b \in BatchesUpTo(k - 1, n - Len(e))} :
                  e \in SeqsUpTo(FewPaths, n)}

\* the batches of one event of at most n paths over all paths
AllPaths ==
    {Raw1, Raw2, Raw3, Raw3Bright, FileA, FileB, File2, Gone, DotDot}

ListBatches(n) == {<<l>> : l \in SeqsUpTo(AllPaths, n)}

\* the output directories: /data/out, and the root
OutPaths == {<<"data", "out">>, <<>>}

InitHandle ==
    /\ \E b \in BatchesUpTo(MaxEvents, MaxBatchPaths)
                  \cup ListBatches(MaxListPaths) :
          /\ chan = <<OkDelivery(b)>>
          /\ sentLog = <<OkDelivery(b)>>
    /\ build \in Builds
    /\ conf \in [inpath : {<<"data", "in">>}, outpath : OutPaths,
                 proc : {"identity", "fkspecies"}]
    /\ CheckPaths(conf)
    /\ pc = "recv"
    /\ processor = GetProc(conf)
    /\ watching = TRUE
    /\ fs = Fs0
    /\ log = <<>>
    /\ CodecIdle
    /\ OdIdle

NextHandle == Recv

SpecHandle == InitHandle /\ [][NextHandle]_vars

\* ------------------------------------------------------------------------
\* Properties of handle_events and the processors (SpecHandle)
\* ------------------------------------------------------------------------
\* the number of paths of the events before event i
RECURSIVE PathsBefore(_, _)
PathsBefore(events, i) ==
    IF i <= 1 THEN 0 ELSE PathsBefore(events, i - 1) + Len(events[i - 1])

\* every path of every event, in delivery order: path j of event i stands
\* at position PathsBefore(events, i) + j
Concatenation(events) ==
    [k \in 1..PathsBefore(events, Len(events) + 1) |->
       LET i == CHOOSE x \in DOMAIN events :
                   /\ PathsBefore(events, x) < k
                   /\ k <= PathsBefore(events, x) + Len(events[x])
       IN events[i][k - PathsBefore(events, i)]]

\* c with every run of adjacent equal elements collapsed to its first
RunsCollapsed(c) ==
    LET first == {k \in DOMAIN c : k = 1 \/ c[k] # c[k - 1]}
        Nth(n) == CHOOSE k \in first : Cardinality({x \in first : x <= k}) = n
    IN [n \in 1..Cardinality(first) |-> c[Nth(n)]]

Inside(path, dir) == FileName(path).some /\ Parent(path) = dir

\* C3: the four files a successful FKSpecies proc writes are inside the
\* output directory: each raw file copied unmodified to <outpath>/<its file
\* name>, the result at <outpath>/20140000-img-0000.sis, nothing elsewhere.
C3_WritesInsideOutpath ==
    \A i \in DOMAIN log :
        (processor = "fkspecies" /\ log[i].res = "ok") =>
            /\ Len(log[i].ops) = 4
            /\ \A k \in 1..3 :
                  /\ log[i].ops[k].to =
                        Push(conf.outpath, FileName(log[i].ops[k].from).name)
                  /\ fs[log[i].ops[k].to] = Fs0[log[i].ops[k].from]
            /\ log[i].ops[4].to = Push(conf.outpath, OdFileName)
            /\ \A q \in DOMAIN fs :
                  q \in DOMAIN Fs0 \/ Inside(q, conf.outpath)

\* Identity::filecp succeeds on the path
Copyable(path) == FileName(path).some /\ path \in DOMAIN Fs0

\* the index of the first path filecp fails on, Len(paths) + 1 if none
FirstFail(paths) ==
    IF \A k \in DOMAIN paths : Copyable(paths[k]) THEN Len(paths) + 1
    ELSE CHOOSE k \in DOMAIN paths :
            /\ ~Copyable(paths[k])
            /\ \A j \in 1..(k - 1) : Copyable(paths[j])

\* where Identity copies the path
Target(path) == Push(conf.outpath, FileName(path).name)

\* the last of the paths before index k with the file name of paths[i]
LastOfName(paths, k, i) ==
    CHOOSE j \in i..(k - 1) :
        /\ FileName(paths[j]).name = FileName(paths[i]).name
        /\ \A m \in (j + 1)..(k - 1) :
              FileName(paths[m]).name # FileName(paths[i]).name

\* what C4 says of the call and its copies, apart from their bytes: the
\* paths before the first failure are copied in order, each to
\* <outpath>/<file name>, no later path is, the call fails exactly if a copy
\* does, and no other file changes
FailFast(e) ==
    LET k == FirstFail(e.paths)
    IN /\ e.res = IF k > Len(e.paths) THEN "ok" ELSE "err"
       /\ Len(e.ops) = k - 1
       /\ \A j \in 1..(k - 1) :
             e.ops[j] = Op("copy", e.paths[j], Target(e.paths[j]))
       /\ \A q \in DOMAIN fs :
             \/ q \in DOMAIN Fs0 /\ fs[q] = Fs0[q]
             \/ \E j \in 1..(k - 1) : q = Target(e.paths[j])

\* C4 as claimed: Identity.proc is fail-fast without rollback, and every
\* path copied (all of them when no copy fails) has a byte-identical copy at
\* <outpath>/<file name>.
C4_IdentityCopies ==
    \A i \in DOMAIN log :
        processor = "identity" =>
            /\ FailFast(log[i])
            /\ \A j \in 1..(FirstFail(log[i].paths) - 1) :
                  /\ Target(log[i].paths[j]) \in DOMAIN fs
                  /\ fs[Target(log[i].paths[j])] = Fs0[log[i].paths[j]]

\* C4 as amended: Identity.proc is fail-fast without rollback, and
\* <outpath>/<file name> holds the bytes of the last path copied that has
\* this file name.
C4_IdentityLastCopy ==
    \A i \in DOMAIN log :
        processor = "identity" =>
            /\ FailFast(log[i])
            /\ \A j \in 1..(FirstFail(log[i].paths) - 1) :
                  /\ Target(log[i].paths[j]) \in DOMAIN fs
                  /\ fs[Target(log[i].paths[j])] =
                       Fs0[log[i].paths[LastOfName(log[i].paths,
                                                   FirstFail(log[i].paths), j)]]

\* Identity has copied two files of one name and failed on the third path
C4_Witness ==
    \E i \in DOMAIN log :
        /\ processor = "identity"
        /\ log[i].paths = <<FileA, FileB, Gone>>
        /\ log[i].res = "err"
        /\ Len(log[i].ops) = 2

\* some token is in no path of the batch
TokenMissing(paths) ==
    \E t \in DOMAIN Tokens : \A k \in DOMAIN paths : ~Contains(paths[k], Tokens[t])

\* C7: FKSpecies.proc on a batch in which one of the three tokens is in no
\* path fails and writes no file, neither a raw copy nor the result.
C7_MissingToken ==
    \A i \in DOMAIN log :
        (processor = "fkspecies" /\ TokenMissing(log[i].paths)) =>
            /\ log[i].res = "err"
            /\ log[i].ops = <<>>
            /\ fs = Fs0

\* FKSpecies has failed on a batch with the first two raw files and no third
C7_Witness ==
    \E i \in DOMAIN log :
        /\ processor = "fkspecies"
        /\ log[i].paths = <<Raw1, Raw2>>
        /\ log[i].res = "err"

\* ------------------------------------------------------------------------
\* Properties of main (Spec)
\* ------------------------------------------------------------------------
\* C5: a batch without events, or whose events carry no paths, is a no-op
\* under both processors: the path list is empty, nothing is written, no
\* error is raised and the run loop goes on to the next delivery.
C5_EmptyBatchNoOp ==
    \A i \in DOMAIN log :
        (log[i].delivery.ok /\ log[i].paths = <<>>) =>
            /\ log[i].res = "ok"
            /\ log[i].ops = <<>>
            /\ i = Len(log) => pc = "recv"

\* C6: the deliveries are received one at a time in channel order, each
\* once; an error of proc or of the channel ends the run loop, so that a
\* delivery that failed is the last one received: it is not retried and no
\* later delivery is flattened or handed to the processor.
C6_ErrorsFatal ==
    /\ Len(log) <= Len(sentLog)
    /\ \A i \in DOMAIN log :
          /\ log[i].delivery = sentLog[i]
          /\ (log[i].res = "watch_err") = ~log[i].delivery.ok
          /\ i < Len(log) => log[i].res = "ok"
    /\ chan = SubSeq(sentLog, Len(log) + 1, Len(sentLog))
    /\ (log # <<>> /\ log[Len(log)].res \in {"err", "watch_err"})
          => pc = "exit_err"
    /\ (log = <<>> \/ log[Len(log)].res = "ok")
          => pc \in {"checkpaths", "getproc", "watch", "recv", "exit_err"}

\* proc has failed on the first delivery while a second one waits
C6_Witness ==
    /\ Len(log) = 1
    /\ log[1].res = "err"
    /\ pc = "exit_err"
    /\ chan # <<>>

\* the configuration is one main must refuse
BadConfig ==
    \/ conf.inpath = conf.outpath
    \/ conf.inpath \notin Dirs
    \/ conf.outpath \notin Dirs
    \/ conf.proc \notin {"identity", "fkspecies"}

\* C8: with the input path equal to the output path, a path that is no
\* directory or an unknown processor name, main never creates the watch
\* subscription and never receives or processes a delivery.
C8_ConfigFatal ==
    BadConfig =>
        /\ pc \in {"checkpaths", "getproc", "exit_err"}
        /\ ~watching
        /\ sentLog = <<>>
        /\ chan = <<>>
        /\ log = <<>>
        /\ fs = Fs0

\* main has ended with the error of equal input and output directories
C8_Witness ==
    /\ conf.inpath = conf.outpath
    /\ IsDir(conf.inpath)
    /\ conf.proc \in {"identity", "fkspecies"}
    /\ pc = "exit_err"

\* ------------------------------------------------------------------------
\* SpecOD: FKSpecies::calc_od on three grids of one shape
\* ------------------------------------------------------------------------
\* sample values of the frames
OdSamples == {1000, 2000}

OdShapes(n) == {s \in (1..n) \X (1..n) : s[1] * s[2] <= n}

OdArrays(s) == {Array(s[1], s[2], p) : p \in [1..(s[1] * s[2]) -> OdSamples]}

InitOD ==
    /\ build \in Builds
    /\ \E s \in OdShapes(MaxCells) :
          /\ img1 \in OdArrays(s)
          /\ img2 \in OdArrays(s)
          /\ img3 \in OdArrays(s)
    /\ od = CalcOdPanic
    /\ opc = "call"
    /\ CodecIdle
    /\ MainIdle

\* FKSpecies::calc_od(&img1, &img2, &img3)
CalcOdCall ==
    /\ opc = "call"
    /\ od' = CalcOd(img1, img2, img3, build)
    /\ opc' = "done"
    /\ UNCHANGED <<build, img1, img2, img3, codecVars, mainVars>>

NextOD == CalcOdCall

SpecOD == InitOD /\ [][NextOD]_vars

\* the pixels of the input frames
Pixels == {p \in (0..(MaxCells + 1)) \X (0..(MaxCells + 1)) :
             p[1] < img1.shape[1] /\ p[2] < img1.shape[2]}

\* C9: calc_od does not abort on any sample values, and its
\* background-subtracted frames are the signed differences S1 = A - R and
\* S2 = B - R at every pixel, negative where the reference exceeds the frame
\* (stated for the frames of even height, which the split of the rows takes).
C9_SignedDifference ==
    (opc = "done" /\ img1.shape[1] % 2 = 0) =>
        /\ od.res = "ok"
        /\ \A p \in Pixels :
              /\ At(od.s1, p[1], p[2]) = At(img1, p[1], p[2]) - At(img3, p[1], p[2])
              /\ At(od.s2, p[1], p[2]) = At(img2, p[1], p[2]) - At(img3, p[1], p[2])

\* no reference sample exceeds the frame sample it is subtracted from
NoUnderflow ==
    \A p \in Pixels :
        /\ At(img1, p[1], p[2]) >= At(img3, p[1], p[2])
        /\ At(img2, p[1], p[2]) >= At(img3, p[1], p[2])

\* the value of the output pixel (r, c): in the rows above height / 2 the
\* logarithm of the first subtracted frame half a height below minus the one
\* at the pixel, in the other rows the logarithm of the second subtracted
\* frame at the pixel minus the one half a height above
OdPixel(r, c) ==
    LET half == img1.shape[1] \div 2
        L(a, i) == F32Ln(At(a, i, c) - At(img3, i, c))
    IN IF r < half THEN F32Sub(L(img1, r + half), L(img1, r))
       ELSE F32Sub(L(img2, r), L(img2, r - half))

\* C10: on three frames of one shape h x w, h odd included, calc_od
\* completes and returns an h x w grid: its first h / 2 rows are filled from
\* the first subtracted frame, its other rows from the second (stated for
\* the frames on which no subtraction underflows).
C10_ShapeAndHalves ==
    (opc = "done" /\ NoUnderflow) =>
        /\ od.res = "ok"
        /\ od.out.shape = img1.shape
        /\ img1.shape[1] % 2 = 0 =>
             \A p \in Pixels : At(od.out, p[1], p[2]) = OdPixel(p[1], p[2])

\* calc_od on frames of even height without underflow returns the grid of
\* OdPixel
EvenHeightOd ==
    (opc = "done" /\ NoUnderflow /\ img1.shape[1] % 2 = 0) =>
        /\ od.res = "ok"
        /\ od.out.shape = img1.shape
        /\ \A p \in Pixels : At(od.out, p[1], p[2]) = OdPixel(p[1], p[2])

====
